---- MODULE Spec2Model ----
(***************************************************************************)
(* Model of the Alembic migration a1b2c3d4e5f6 "Add NFC ID extra field":   *)
(* upgrade() and downgrade() acting on the row of table `setting` whose    *)
(* key is 'extra_fields_spool'.                                            *)
(***************************************************************************)
EXTENDS Integers, Sequences, FiniteSets, TLC

\* ---------------------------------------------------------------- bounds
\* longest JSON array / object / string stored before the migration runs
MaxLen == 3
\* number of migration runs (upgrade or downgrade) in one behaviour
MaxOps == 3

\* ------------------------------------------------------- Python / JSON values
\* Python's None, as returned by dict.get for a missing key and as the value
\* of the null attributes of a descriptor
PyNone == "<None>"

\* the dict literal of the update branch of upgrade()
nfc_field ==
    [type |-> "dict", key |-> "nfc_id", entity_type |-> "spool",
     name |-> "NFC Tag ID", order |-> 0, unit |-> PyNone,
     field_type |-> "text", default_value |-> PyNone, choices |-> PyNone,
     multi_choice |-> PyNone]

\* the insert branch's literal with a different label and position
nfc_field_else_typo ==
    [type |-> "dict", key |-> "nfc_id", entity_type |-> "spool",
     name |-> "NFC ID", order |-> 1, unit |-> PyNone,
     field_type |-> "text", default_value |-> PyNone, choices |-> PyNone,
     multi_choice |-> PyNone]

\* the dict literal of the insert branch of upgrade()
nfc_field_else ==
    [type |-> "dict", key |-> "nfc_id", entity_type |-> "spool",
     name |-> "NFC Tag ID", order |-> 0, unit |-> PyNone,
     field_type |-> "text", default_value |-> PyNone, choices |-> PyNone,
     multi_choice |-> PyNone]

\* Elements a stored JSON array may hold before the migration runs: a
\* user-made field that already uses the key nfc_id, two unrelated fields, an
\* object without a "key" member, and a JSON number.
UserNfc ==
    [type |-> "dict", key |-> "nfc_id", entity_type |-> "spool",
     name |-> "My tag", order |-> 2, unit |-> PyNone,
     field_type |-> "text", default_value |-> PyNone, choices |-> PyNone,
     multi_choice |-> PyNone]

Material ==
    [type |-> "dict", key |-> "material", entity_type |-> "spool",
     name |-> "Material", order |-> 1, unit |-> PyNone,
     field_type |-> "text", default_value |-> PyNone, choices |-> PyNone,
     multi_choice |-> PyNone]

Weight ==
    [type |-> "dict", key |-> "weight", entity_type |-> "spool",
     name |-> "Weight", order |-> 0, unit |-> "g",
     field_type |-> "integer", default_value |-> PyNone, choices |-> PyNone,
     multi_choice |-> PyNone]

NoKey ==
    [type |-> "dict", key |-> PyNone, entity_type |-> "spool",
     name |-> "Keyless", order |-> 4, unit |-> PyNone,
     field_type |-> "text", default_value |-> PyNone, choices |-> PyNone,
     multi_choice |-> PyNone]

JsonNumber ==
    [type |-> "int", key |-> PyNone, entity_type |-> PyNone,
     name |-> PyNone, order |-> 7, unit |-> PyNone,
     field_type |-> PyNone, default_value |-> PyNone, choices |-> PyNone,
     multi_choice |-> PyNone]

\* what iterating a Python dict or str yields: a str (a member name, a character)
PyStr ==
    [type |-> "str", key |-> PyNone, entity_type |-> PyNone,
     name |-> PyNone, order |-> 0, unit |-> PyNone,
     field_type |-> PyNone, default_value |-> PyNone, choices |-> PyNone,
     multi_choice |-> PyNone]

ArrayElements == {nfc_field, UserNfc, Material, Weight, NoKey, JsonNumber}

SeqsUpTo(S, n) == UNION {[1..k -> S] : k \in 0..n}

\* The text of column `value`.  syntax is what a JSON parser finds in it, sep
\* the separators it is written with ("default" is what json.dumps emits,
\* "compact" any other spelling of the same document), items the elements of
\* an array, the member names of an object or the characters of a string.
StoredTexts ==
    {[syntax |-> "array", sep |-> sp, items |-> it] :
        sp \in {"default", "compact"}, it \in SeqsUpTo(ArrayElements, MaxLen)}
    \cup {[syntax |-> sy, sep |-> "default", items |-> it] :
        sy \in {"object", "string"}, it \in SeqsUpTo({PyStr}, 1)}
    \cup {[syntax |-> sy, sep |-> "default", items |-> <<>>] :
        sy \in {"number", "null", "invalid"}}

\* json.loads: raises on text that is not JSON, otherwise builds the Python
\* value (the spelling of the text is lost)
json_loads(text) ==
    IF text.syntax = "invalid"
    THEN [raised |-> "JSONDecodeError", type |-> "NoneType", items |-> <<>>]
    ELSE [raised |-> "none",
          type |-> CASE text.syntax = "array" -> "list"
                     [] text.syntax = "object" -> "dict"
                     [] text.syntax = "string" -> "str"
                     [] text.syntax = "number" -> "int"
                     [] OTHER -> "NoneType",
          items |-> text.items]

\* json.dumps of a Python list, with the default separators
json_dumps(list) ==
    [syntax |-> "array", sep |-> "default", items |-> list]

Iterable(v) == v.type \in {"list", "dict", "str"}


\* ------------------------------------------------------------ the store
\* the one settings key the migration reads and writes
SettingKey == "extra_fields_spool"

\* SELECT value FROM setting WHERE key = 'extra_fields_spool' ... fetchone():
\* the rows found (at most one, key is unique); the empty set is None
fetchone(table) == {r \in table : r.key = SettingKey}

\* UPDATE setting SET value = :value, last_updated = :updated WHERE key = ...
sql_update(table, value, updated) ==
    {IF r.key = SettingKey
     THEN [r EXCEPT !.value = value, !.last_updated = updated]
     ELSE r : r \in table}

\* INSERT INTO setting (key, value, last_updated) VALUES (...)
sql_insert(table, value, updated) ==
    table \cup {[key |-> SettingKey, value |-> value, last_updated |-> updated]}

\* ------------------------------------------------- the merge / unmerge code
\* field.get("key"): only a dict has .get
HasGet(field) == field.type = "dict"

\* an any() whose test never matches: nfc_id is never found
any_nfc_id_never(fields) ==
    IF \E k \in 1..Len(fields) : ~HasGet(fields[k]) THEN "AttributeError" ELSE "False"

\* an any() that looks at the first element only
any_nfc_id_first(fields) ==
    IF fields = <<>> THEN "False"
    ELSE IF ~HasGet(Head(fields)) THEN "AttributeError"
    ELSE IF Head(fields).key = "nfc_id" THEN "True"
    ELSE "False"

\* an any() that lost its comparison, any(field.get("key") for field in ...):
\* true at the first element that has a key at all
RECURSIVE any_nfc_id_anykey(_)
any_nfc_id_anykey(fields) ==
    IF fields = <<>> THEN "False"
    ELSE IF ~HasGet(Head(fields)) THEN "AttributeError"
    ELSE IF Head(fields).key # PyNone THEN "True"
    ELSE any_nfc_id_anykey(Tail(fields))

\* any(field.get("key") == "nfc_id" for field in existing_fields):
\* stops at the first match; an element without .get raises AttributeError
RECURSIVE any_nfc_id(_)
any_nfc_id(fields) ==
    IF fields = <<>> THEN "False"
    ELSE IF ~HasGet(Head(fields)) THEN "AttributeError"
    ELSE IF Head(fields).key = "nfc_id" THEN "True"
    ELSE any_nfc_id(Tail(fields))

\* existing_fields.append(nfc_field) in place of insert(0, ...)
list_append(fields, field) == fields \o <<field>>

\* existing_fields.insert(0, nfc_field)
list_insert_0(fields, field) == <<field>> \o fields

\* a removal that stops after the first nfc_id element (list.remove style)
RECURSIVE without_first_nfc_id(_)
without_first_nfc_id(fields) ==
    IF \E k \in 1..Len(fields) : ~HasGet(fields[k])
    THEN [raised |-> "AttributeError", items |-> <<>>]
    ELSE IF fields = <<>> THEN [raised |-> "none", items |-> <<>>]
    ELSE IF Head(fields).key = "nfc_id"
    THEN [raised |-> "none", items |-> Tail(fields)]
    ELSE [raised |-> "none",
          items |-> <<Head(fields)>> \o without_first_nfc_id(Tail(fields)).items]

\* a filter that also drops the elements without a key,
\* if field.get("key") not in (None, "nfc_id")
RECURSIVE without_nfc_id_or_none(_)
without_nfc_id_or_none(fields) ==
    IF fields = <<>> THEN [raised |-> "none", items |-> <<>>]
    ELSE IF ~HasGet(Head(fields)) THEN [raised |-> "AttributeError", items |-> <<>>]
    ELSE LET rest == without_nfc_id_or_none(Tail(fields))
         IN  IF rest.raised # "none" THEN rest
             ELSE IF Head(fields).key \notin {"nfc_id", PyNone}
             THEN [raised |-> "none", items |-> <<Head(fields)>> \o rest.items]
             ELSE rest

\* [field for field in existing_fields if field.get("key") != "nfc_id"]:
\* visits every element; raised is "AttributeError" when one has no .get
RECURSIVE without_nfc_id(_)
without_nfc_id(fields) ==
    IF fields = <<>> THEN [raised |-> "none", items |-> <<>>]
    ELSE IF ~HasGet(Head(fields)) THEN [raised |-> "AttributeError", items |-> <<>>]
    ELSE LET rest == without_nfc_id(Tail(fields))
         IN  IF rest.raised # "none" THEN rest
             ELSE IF Head(fields).key # "nfc_id"
             THEN [raised |-> "none", items |-> <<Head(fields)>> \o rest.items]
             ELSE rest

\* outcome of one run: the table afterwards, the exception that ended it
\* ("none" when it returned) and the number of statements that wrote
Outcome(table, raised, writes) ==
    [table |-> table, raised |-> raised, writes |-> writes]

\* an `if result:` branch that issues its UPDATE also when nfc_id was found
upgrade_existing_rewrites(table, row, now) ==
    LET existing_fields == json_loads(row.value) IN
    IF existing_fields.raised # "none"
    THEN Outcome(table, existing_fields.raised, 0)
    ELSE IF ~Iterable(existing_fields)
    THEN Outcome(table, "TypeError", 0)
    ELSE LET found == any_nfc_id(existing_fields.items) IN
         IF found = "AttributeError"
         THEN Outcome(table, "AttributeError", 0)
         ELSE IF found = "True"
         THEN Outcome(sql_update(table, json_dumps(existing_fields.items), now),
                      "none", 1)
         ELSE IF existing_fields.type # "list"
         THEN Outcome(table, "AttributeError", 0)
         ELSE Outcome(sql_update(table,
                          json_dumps(list_insert_0(existing_fields.items, nfc_field)),
                          now),
                      "none", 1)

\* the `if result:` branch of upgrade(): the row exists
upgrade_existing(table, row, now) ==
    LET existing_fields == json_loads(row.value) IN
    IF existing_fields.raised # "none"
    THEN Outcome(table, existing_fields.raised, 0)
    ELSE IF ~Iterable(existing_fields)
    THEN Outcome(table, "TypeError", 0)
    ELSE LET found == any_nfc_id(existing_fields.items) IN
         IF found = "AttributeError"
         THEN Outcome(table, "AttributeError", 0)
         ELSE IF found = "True"
         THEN Outcome(table, "none", 0)
         ELSE IF existing_fields.type # "list"
         THEN Outcome(table, "AttributeError", 0)
         ELSE Outcome(sql_update(table,
                          json_dumps(list_insert_0(existing_fields.items, nfc_field)),
                          now),
                      "none", 1)

\* upgrade(), run against `table` when datetime.utcnow() is `now`
upgrade(table, now) ==
    LET result == fetchone(table) IN
    IF result # {}
    THEN upgrade_existing(table, CHOOSE r \in result : TRUE, now)
    ELSE Outcome(sql_insert(table, json_dumps(<<nfc_field_else>>), now), "none", 1)

\* an `if result:` branch that deletes the row when nothing is left in the
\* list (DELETE FROM setting WHERE key = ...)
downgrade_existing_deletes(table, row, now) ==
    LET existing_fields == json_loads(row.value) IN
    IF existing_fields.raised # "none"
    THEN Outcome(table, existing_fields.raised, 0)
    ELSE IF ~Iterable(existing_fields)
    THEN Outcome(table, "TypeError", 0)
    ELSE LET kept == without_nfc_id(existing_fields.items) IN
         IF kept.raised # "none"
         THEN Outcome(table, kept.raised, 0)
         ELSE IF kept.items = <<>>
         THEN Outcome({r \in table : r.key # SettingKey}, "none", 1)
         ELSE Outcome(sql_update(table, json_dumps(kept.items), now), "none", 1)

\* the `if result:` branch of downgrade(): the row exists
downgrade_existing(table, row, now) ==
    LET existing_fields == json_loads(row.value) IN
    IF existing_fields.raised # "none"
    THEN Outcome(table, existing_fields.raised, 0)
    ELSE IF ~Iterable(existing_fields)
    THEN Outcome(table, "TypeError", 0)
    ELSE LET kept == without_nfc_id(existing_fields.items) IN
         IF kept.raised # "none"
         THEN Outcome(table, kept.raised, 0)
         ELSE Outcome(sql_update(table, json_dumps(kept.items), now), "none", 1)

\* a downgrade() that lost its `if result:` guard and writes the filtered
\* (empty) list also when there is no row
downgrade_unguarded(table, now) ==
    LET result == fetchone(table) IN
    IF result # {}
    THEN downgrade_existing(table, CHOOSE r \in result : TRUE, now)
    ELSE Outcome(sql_insert(table, json_dumps(<<>>), now), "none", 1)

\* downgrade(), run against `table` when datetime.utcnow() is `now`
downgrade(table, now) ==
    LET result == fetchone(table) IN
    IF result # {}
    THEN downgrade_existing(table, CHOOSE r \in result : TRUE, now)
    ELSE Outcome(table, "none", 0)

\* ------------------------------------------------------- the state machine
\* setting: the rows of table `setting` with key 'extra_fields_spool'
\* now:     the clock read by datetime.utcnow()
\* hist:    one record per migration run so far: the operation, the table
\*          before and after it, the exception it raised, its writes
\* pc:      where the migration stands: "idle", or the function that has done
\*          its SELECT and not yet the statements after it
\* result:  the rows that SELECT fetched
VARIABLES setting, now, hist, pc, result

vars == <<setting, now, hist, pc, result>>

Init ==
    /\ setting \in {{}} \cup
          {{[key |-> SettingKey, value |-> v, last_updated |-> 0]} : v \in StoredTexts}
    /\ now = 0
    /\ hist = <<>>
    /\ pc = "idle"
    /\ result = {}

Run(op, out) ==
    /\ setting' = out.table
    /\ now' = now + 1
    /\ hist' = Append(hist, [op |-> op, before |-> setting, after |-> out.table,
                             raised |-> out.raised, writes |-> out.writes])
    /\ UNCHANGED <<pc, result>>

\* alembic upgrade: one run of upgrade()
Upgrade ==
    /\ pc = "idle"
    /\ Len(hist) < MaxOps
    /\ Run("upgrade", upgrade(setting, now + 1))

\* alembic downgrade: one run of downgrade()
Downgrade ==
    /\ pc = "idle"
    /\ Len(hist) < MaxOps
    /\ Run("downgrade", downgrade(setting, now + 1))

Next == Upgrade \/ Downgrade

Spec == Init /\ [][Next]_vars


\* ------------------------------------------------ vocabulary of the properties
\* the canonical descriptor D of the specification
CanonicalD ==
    [type |-> "dict", key |-> "nfc_id", entity_type |-> "spool",
     name |-> "NFC Tag ID", order |-> 0, unit |-> PyNone,
     field_type |-> "text", default_value |-> PyNone, choices |-> PyNone,
     multi_choice |-> PyNone]

\* no Setting Entry exists for the key
Absent(table) == \A r \in table : r.key # SettingKey

\* the stored texts of the entry (none or one)
Texts(table) == {r.value : r \in table}

\* the entry holds a Field List: a JSON array of JSON objects
IsFieldList(table) ==
    /\ ~Absent(table)
    /\ \A t \in Texts(table) :
          /\ t.syntax = "array"
          /\ \A k \in 1..Len(t.items) : t.items[k].type = "dict"

\* the entry holds something that is not a JSON array
Malformed(table) ==
    /\ ~Absent(table)
    /\ \A t \in Texts(table) : t.syntax # "array"

\* the stored list, as a sequence of elements (for an entry holding an array)
FieldList(table) == (CHOOSE t \in Texts(table) : TRUE).items

\* what the store holds once decoded: nothing, or the document of the entry
\* without its spelling
Content(table) == {[syntax |-> t.syntax, items |-> t.items] : t \in Texts(table)}

\* positions of list l that hold an element with key nfc_id
NfcPositions(l) == {k \in 1..Len(l) : l[k].key = "nfc_id"}

\* positions of list l that hold any other element
OtherPositions(l) == (1..Len(l)) \ NfcPositions(l)

\* the position in l of its j-th element whose key is not nfc_id
NthOther(l, j) ==
    CHOOSE k \in OtherPositions(l) :
        Cardinality({m \in OtherPositions(l) : m <= k}) = j

\* runs i..j of the history are all the operation op
AllRuns(i, j, op) == \A k \in i..j : hist[k].op = op

\* ------------------------------------------------------------------ C1
\* C1: from an absent entry or any stored Field List, running upgrade two or
\* more times in a row leaves the same Field List as running it once.
C1_MergeIdempotent ==
    \A i \in 1..Len(hist) : \A j \in (i + 1)..Len(hist) :
        /\ AllRuns(i, j, "upgrade")
        /\ Absent(hist[i].before) \/ IsFieldList(hist[i].before)
        => Content(hist[j].after) = Content(hist[i].after)

\* an upgrade that inserted D was followed by another upgrade
C1_Witness ==
    \E i \in 1..(Len(hist) - 1) :
        /\ AllRuns(i, i + 1, "upgrade")
        /\ IsFieldList(hist[i].before)
        /\ hist[i].writes = 1
        /\ hist[i + 1].raised = "none"

\* ------------------------------------------------------------------ C2
\* C2: on a Field List with no element of key nfc_id, upgrade writes back
\* [D] + original: D first, then every original element, unmodified and in order.
C2_MergePrepends ==
    \A i \in 1..Len(hist) :
        /\ hist[i].op = "upgrade"
        /\ IsFieldList(hist[i].before)
        /\ NfcPositions(FieldList(hist[i].before)) = {}
        => /\ hist[i].raised = "none"
           /\ hist[i].writes = 1
           /\ IsFieldList(hist[i].after)
           /\ FieldList(hist[i].after) = <<CanonicalD>> \o FieldList(hist[i].before)

\* upgrade ran on a list of two different fields, neither of them nfc_id
C2_Witness ==
    \E i \in 1..Len(hist) :
        /\ hist[i].op = "upgrade"
        /\ IsFieldList(hist[i].before)
        /\ NfcPositions(FieldList(hist[i].before)) = {}
        /\ Len(FieldList(hist[i].before)) >= 2
        /\ FieldList(hist[i].before)[1] # FieldList(hist[i].before)[2]

\* ------------------------------------------------------------------ C3
\* C3: with no Setting Entry, upgrade creates the entry and its value is
\* exactly the one-element list [D].
C3_MergeCreates ==
    \A i \in 1..Len(hist) :
        /\ hist[i].op = "upgrade"
        /\ Absent(hist[i].before)
        => /\ hist[i].raised = "none"
           /\ Cardinality(fetchone(hist[i].after)) = 1
           /\ IsFieldList(hist[i].after)
           /\ FieldList(hist[i].after) = <<CanonicalD>>

\* upgrade ran when there was no entry
C3_Witness ==
    \E i \in 1..Len(hist) :
        /\ hist[i].op = "upgrade"
        /\ Absent(hist[i].before)
        /\ ~Absent(hist[i].after)

\* ------------------------------------------------------------------ C4
\* C4: on a Field List that already has an element of key nfc_id (anywhere,
\* with any attributes), upgrade leaves elements and order unchanged and adds
\* no duplicate.
C4_MergeKeepsExisting ==
    \A i \in 1..Len(hist) :
        /\ hist[i].op = "upgrade"
        /\ IsFieldList(hist[i].before)
        /\ NfcPositions(FieldList(hist[i].before)) # {}
        => /\ hist[i].raised = "none"
           /\ FieldList(hist[i].after) = FieldList(hist[i].before)
           /\ NfcPositions(FieldList(hist[i].after))
                 = NfcPositions(FieldList(hist[i].before))

\* upgrade ran on a list whose only nfc_id element is a user-made one that is
\* not at the front
C4_Witness ==
    \E i \in 1..Len(hist) :
        /\ hist[i].op = "upgrade"
        /\ IsFieldList(hist[i].before)
        /\ NfcPositions(FieldList(hist[i].before)) = {2}
        /\ FieldList(hist[i].before)[2] # CanonicalD

\* ------------------------------------------------------------------ C5
\* C5: downgrade on a Field List removes exactly the elements of key nfc_id,
\* all of them, and keeps every other element, unchanged and in order.
C5_UnmergeRemovesExactly ==
    \A i \in 1..Len(hist) :
        /\ hist[i].op = "downgrade"
        /\ IsFieldList(hist[i].before)
        => LET old == FieldList(hist[i].before)
               new == FieldList(hist[i].after)
           IN  /\ hist[i].raised = "none"
               /\ IsFieldList(hist[i].after)
               /\ Len(new) = Cardinality(OtherPositions(old))
               /\ \A j \in 1..Len(new) : new[j] = old[NthOther(old, j)]

\* downgrade ran on a list with two nfc_id elements and another field
C5_Witness ==
    \E i \in 1..Len(hist) :
        /\ hist[i].op = "downgrade"
        /\ IsFieldList(hist[i].before)
        /\ Cardinality(NfcPositions(FieldList(hist[i].before))) = 2
        /\ Len(FieldList(hist[i].after)) = 1


\* ------------------------------------------------------------------ C6
\* C6: when the stored value is malformed (not JSON, or JSON that is not an
\* array), upgrade and downgrade both abort with an error and write nothing;
\* the value is never replaced by an empty list or any other list.
C6_MalformedAborts ==
    \A i \in 1..Len(hist) :
        Malformed(hist[i].before)
        => /\ hist[i].raised # "none"
           /\ hist[i].writes = 0
           /\ hist[i].after = hist[i].before

\* ------------------------------------------------------------------ C7
\* C7 as stated: in every state reached by an upgrade, downgrade followed by
\* upgrade yields the list the first upgrade produced.
C7_RemergeRestoresAlways ==
    \A i \in 1..(Len(hist) - 2) :
        /\ hist[i].op = "upgrade" /\ hist[i].raised = "none"
        /\ hist[i + 1].op = "downgrade"
        /\ hist[i + 2].op = "upgrade"
        => Content(hist[i + 2].after) = Content(hist[i].after)

\* C7 amended: when the list an upgrade produced has the canonical D as its
\* first element and no other element of key nfc_id, downgrade followed by
\* upgrade yields that list again (same elements, same order).
C7_RemergeRestores ==
    \A i \in 1..(Len(hist) - 2) :
        /\ hist[i].op = "upgrade" /\ hist[i].raised = "none"
        /\ hist[i + 1].op = "downgrade"
        /\ hist[i + 2].op = "upgrade"
        /\ FieldList(hist[i].after)[1] = CanonicalD
        /\ NfcPositions(FieldList(hist[i].after)) = {1}
        => Content(hist[i + 2].after) = Content(hist[i].after)

\* upgrade inserted D in front of two fields, downgrade removed it and a
\* second upgrade wrote again
C7_Witness ==
    \E i \in 1..(Len(hist) - 2) :
        /\ hist[i].op = "upgrade" /\ hist[i].writes = 1
        /\ hist[i + 1].op = "downgrade" /\ hist[i + 1].writes = 1
        /\ hist[i + 2].op = "upgrade" /\ hist[i + 2].writes = 1
        /\ Len(FieldList(hist[i].after)) = 3
        /\ Len(FieldList(hist[i + 1].after)) = 2

\* ------------------------------------------------------------------ C8
\* C8 as stated: after an upgrade that returned, from an absent entry or any
\* Field List, the stored list contains the canonical descriptor D.
C8_MergeLeavesCanonicalD ==
    \A i \in 1..Len(hist) :
        /\ hist[i].op = "upgrade" /\ hist[i].raised = "none"
        /\ Absent(hist[i].before) \/ IsFieldList(hist[i].before)
        => \E k \in 1..Len(FieldList(hist[i].after)) :
              FieldList(hist[i].after)[k] = CanonicalD

\* C8 amended: after such an upgrade the stored list contains an element of
\* key nfc_id; it contains the canonical D whenever the entry was absent or
\* its list had no element of key nfc_id before the upgrade.
C8_MergeLeavesNfcId ==
    \A i \in 1..Len(hist) :
        /\ hist[i].op = "upgrade" /\ hist[i].raised = "none"
        /\ Absent(hist[i].before) \/ IsFieldList(hist[i].before)
        => /\ NfcPositions(FieldList(hist[i].after)) # {}
           /\ (Absent(hist[i].before) \/ NfcPositions(FieldList(hist[i].before)) = {})
                 => \E k \in 1..Len(FieldList(hist[i].after)) :
                       FieldList(hist[i].after)[k] = CanonicalD

\* upgrade returned on a list of keyed fields that had no nfc_id element
C8_Witness ==
    \E i \in 1..Len(hist) :
        /\ hist[i].op = "upgrade" /\ hist[i].raised = "none"
        /\ IsFieldList(hist[i].before)
        /\ Len(FieldList(hist[i].before)) >= 1
        /\ \A k \in 1..Len(FieldList(hist[i].before)) :
              FieldList(hist[i].before)[k].key \notin {"nfc_id", PyNone}

\* ------------------------------------------------------------------ C9
\* C9: from every initial state, running downgrade twice in a row leaves the
\* same Field List in the store as running it once.
C9_UnmergeIdempotent ==
    \A i \in 1..(Len(hist) - 1) :
        AllRuns(i, i + 1, "downgrade")
        => Content(hist[i + 1].after) = Content(hist[i].after)

\* a downgrade that removed two nfc_id elements was followed by another one
C9_Witness ==
    \E i \in 1..(Len(hist) - 1) :
        /\ AllRuns(i, i + 1, "downgrade")
        /\ IsFieldList(hist[i].before)
        /\ Cardinality(NfcPositions(FieldList(hist[i].before))) >= 2
        /\ hist[i + 1].writes = 1

\* ------------------------------------------------------------------ C10
\* C10: downgrade with no Setting Entry leaves the store unchanged: no entry
\* is created, nothing is written, no error is raised.
C10_UnmergeAbsentNoOp ==
    \A i \in 1..Len(hist) :
        /\ hist[i].op = "downgrade"
        /\ Absent(hist[i].before)
        => /\ hist[i].after = hist[i].before
           /\ Absent(hist[i].after)
           /\ hist[i].writes = 0
           /\ hist[i].raised = "none"

\* downgrade ran when there was no entry
C10_Witness ==
    \E i \in 1..Len(hist) :
        /\ hist[i].op = "downgrade"
        /\ Absent(hist[i].before)
        /\ setting = {}


\* ------------------------------------------------------------------ C11
\* the collapsed state of the settings key: no entry, a list with an element
\* of key nfc_id, a list without one
Collapsed(table) ==
    IF Absent(table) THEN "Absent"
    ELSE IF NfcPositions(FieldList(table)) # {} THEN "PresentWithD"
    ELSE "PresentWithoutD"

\* the transition of run i over the collapsed states
Transition(i) ==
    <<Collapsed(hist[i].before),
      IF hist[i].op = "upgrade" THEN "merge" ELSE "unmerge",
      Collapsed(hist[i].after)>>

\* run i started from an absent entry or a Field List
OnFieldList(i) == Absent(hist[i].before) \/ IsFieldList(hist[i].before)

\* the four transitions the state machine of the specification lists
ListedTransitions ==
    {<<"Absent", "merge", "PresentWithD">>,
     <<"PresentWithD", "unmerge", "PresentWithoutD">>,
     <<"Absent", "unmerge", "Absent">>,
     <<"PresentWithD", "merge", "PresentWithD">>}

\* C11 as stated: over Absent, PresentWithD and PresentWithoutD the only
\* transitions merge and unmerge can take are the four listed ones.
C11_OnlyListedTransitions ==
    \A i \in 1..Len(hist) :
        OnFieldList(i) => Transition(i) \in ListedTransitions

\* C11 amended: the only transitions are the four listed ones and the two
\* that leave PresentWithoutD: merge to PresentWithD, unmerge to itself.
C11_OnlySixTransitions ==
    \A i \in 1..Len(hist) :
        OnFieldList(i) =>
            Transition(i) \in ListedTransitions \cup
                {<<"PresentWithoutD", "merge", "PresentWithD">>,
                 <<"PresentWithoutD", "unmerge", "PresentWithoutD">>}

\* a history that went Absent -merge-> PresentWithD -unmerge->
\* PresentWithoutD -merge-> PresentWithD
C11_Witness ==
    /\ Len(hist) >= 3
    /\ Transition(1) = <<"Absent", "merge", "PresentWithD">>
    /\ Transition(2) = <<"PresentWithD", "unmerge", "PresentWithoutD">>
    /\ Transition(3) = <<"PresentWithoutD", "merge", "PresentWithD">>

\* ------------------------------------------------------------------ C12
\* The statements of one run, as the database sees them: the SELECT, then the
\* rest of the function on the rows it fetched.  Nothing in the code locks the
\* row or compares a version, so another session may write in between.

\* the SELECT of upgrade() or downgrade()
Select(op) ==
    /\ pc = "idle"
    /\ Len(hist) < MaxOps
    /\ pc' = op
    /\ result' = fetchone(setting)
    /\ UNCHANGED <<setting, now, hist>>

UpgradeSelect == Select("upgrade")

DowngradeSelect == Select("downgrade")

\* upgrade() from `if result:` on, with the rows fetched earlier
upgrade_fetched(table, fetched, updated) ==
    IF fetched # {}
    THEN upgrade_existing(table, CHOOSE r \in fetched : TRUE, updated)
    ELSE Outcome(sql_insert(table, json_dumps(<<nfc_field_else>>), updated), "none", 1)

\* downgrade() from `if result:` on, with the rows fetched earlier
downgrade_fetched(table, fetched, updated) ==
    IF fetched # {}
    THEN downgrade_existing(table, CHOOSE r \in fetched : TRUE, updated)
    ELSE Outcome(table, "none", 0)

\* the rest of the run; its record keeps what the run read as `before`
Finish(op, out) ==
    /\ pc = op
    /\ pc' = "idle"
    /\ result' = {}
    /\ setting' = out.table
    /\ now' = now + 1
    /\ hist' = Append(hist, [op |-> op, before |-> result, after |-> out.table,
                             raised |-> out.raised, writes |-> out.writes])

UpgradeFinish == Finish("upgrade", upgrade_fetched(setting, result, now + 1))

DowngradeFinish == Finish("downgrade", downgrade_fetched(setting, result, now + 1))

\* the field another writer adds
Colour ==
    [type |-> "dict", key |-> "colour", entity_type |-> "spool",
     name |-> "Colour", order |-> 5, unit |-> PyNone,
     field_type |-> "text", default_value |-> PyNone, choices |-> PyNone,
     multi_choice |-> PyNone]

\* Another writer of the settings key, between the SELECT of a run and the
\* rest of it: it appends a field to the stored Field List (once per run)
OtherWrite ==
    /\ pc # "idle"
    /\ IsFieldList(setting)
    /\ IF hist = <<>> THEN TRUE ELSE hist[Len(hist)].op # "other"
    /\ setting' = sql_update(setting,
                      json_dumps(Append(FieldList(setting), Colour)), now + 1)
    /\ now' = now + 1
    /\ hist' = Append(hist, [op |-> "other", before |-> setting, after |-> setting',
                             raised |-> "none", writes |-> 1])
    /\ UNCHANGED <<pc, result>>

NextConc ==
    \/ UpgradeSelect
    \/ UpgradeFinish
    \/ DowngradeSelect
    \/ DowngradeFinish
    \/ OtherWrite

SpecConc == Init /\ [][NextConc]_vars

\* C12: read-decide-write of upgrade and of downgrade acts as one unit: when
\* another writer puts a new value under the key between the read and the
\* write-back, the entries it added are still there after the write.
C12_NoLostUpdate ==
    \A i \in 1..(Len(hist) - 1) :
        /\ hist[i].op = "other"
        /\ hist[i + 1].op \in {"upgrade", "downgrade"}
        /\ hist[i + 1].writes = 1
        => \E k \in 1..Len(FieldList(hist[i + 1].after)) :
              FieldList(hist[i + 1].after)[k] = Colour

\* ------------------------------------------------------------------ C13
\* the keys of list l are pairwise distinct
DistinctKeys(l) ==
    \A a, b \in 1..Len(l) : a # b => l[a].key # l[b].key

\* no entry, or a Field List with pairwise distinct keys
AbsentOrDistinct(table) ==
    Absent(table) \/ (IsFieldList(table) /\ DistinctKeys(FieldList(table)))

\* the store before the first run
InitialTable == IF hist = <<>> THEN setting ELSE hist[1].before

\* C13: from an absent entry or a Field List with pairwise distinct keys,
\* every sequence of upgrades and downgrades leaves a list with pairwise
\* distinct keys, so with at most one element of key nfc_id.
C13_KeysStayDistinct ==
    AbsentOrDistinct(InitialTable)
    => /\ AbsentOrDistinct(setting)
       /\ ~Absent(setting) => Cardinality(NfcPositions(FieldList(setting))) <= 1

\* upgrade, downgrade, upgrade each wrote, starting from a list of two
\* distinct keys
C13_Witness ==
    /\ Len(hist) >= 3
    /\ IsFieldList(InitialTable)
    /\ DistinctKeys(FieldList(InitialTable))
    /\ Len(FieldList(InitialTable)) = 2
    /\ hist[1].op = "upgrade" /\ hist[1].writes = 1
    /\ hist[2].op = "downgrade"
    /\ hist[3].op = "upgrade" /\ hist[3].writes = 1


\* ------------------------------------------------------------------ C14
\* C14 as stated: once the stored list has no element of key nfc_id, a
\* further downgrade leaves the Setting Entry unchanged (value and
\* last_updated) and issues no write.
C14_UnmergeThenUntouched ==
    \A i \in 1..Len(hist) :
        /\ hist[i].op = "downgrade"
        /\ IsFieldList(hist[i].before)
        /\ NfcPositions(FieldList(hist[i].before)) = {}
        => /\ hist[i].after = hist[i].before
           /\ hist[i].writes = 0

\* C14 amended: once the stored list has no element of key nfc_id, a further
\* downgrade leaves the Field List unchanged, same elements in the same order.
C14_UnmergeThenSameList ==
    \A i \in 1..Len(hist) :
        /\ hist[i].op = "downgrade"
        /\ IsFieldList(hist[i].before)
        /\ NfcPositions(FieldList(hist[i].before)) = {}
        => /\ hist[i].raised = "none"
           /\ IsFieldList(hist[i].after)
           /\ FieldList(hist[i].after) = FieldList(hist[i].before)

\* a downgrade removed an nfc_id element and left two fields, one of them
\* without a key, and a further downgrade ran
C14_Witness ==
    \E i \in 2..Len(hist) :
        /\ AllRuns(i - 1, i, "downgrade")
        /\ IsFieldList(hist[i - 1].before)
        /\ NfcPositions(FieldList(hist[i - 1].before)) # {}
        /\ Len(FieldList(hist[i].before)) = 2
        /\ \E k \in 1..2 : FieldList(hist[i].before)[k].key = PyNone

\* ------------------------------------------------------------------ C15
\* C15: for a stored Field List L with no element of key nfc_id, upgrade
\* followed by downgrade leaves exactly L, same elements in the same order.
C15_MergeUnmergeRoundTrip ==
    \A i \in 1..(Len(hist) - 1) :
        /\ hist[i].op = "upgrade"
        /\ hist[i + 1].op = "downgrade"
        /\ IsFieldList(hist[i].before)
        /\ NfcPositions(FieldList(hist[i].before)) = {}
        => /\ hist[i + 1].raised = "none"
           /\ IsFieldList(hist[i + 1].after)
           /\ FieldList(hist[i + 1].after) = FieldList(hist[i].before)

\* upgrade then downgrade ran on a list of three fields without nfc_id, not
\* all the same
C15_Witness ==
    \E i \in 1..(Len(hist) - 1) :
        /\ hist[i].op = "upgrade" /\ hist[i].writes = 1
        /\ hist[i + 1].op = "downgrade" /\ hist[i + 1].writes = 1
        /\ IsFieldList(hist[i].before)
        /\ Len(FieldList(hist[i].before)) = 3
        /\ FieldList(hist[i].before)[1] # FieldList(hist[i].before)[3]

\* ------------------------------------------------------------------ C16
\* C16: a Setting Entry is never deleted: a run that starts with an entry ends
\* with one; upgrade then downgrade from no entry ends with an entry that
\* holds the empty list.
C16_EntryNeverDeleted ==
    /\ \A i \in 1..Len(hist) :
          ~Absent(hist[i].before) => ~Absent(hist[i].after)
    /\ \A i \in 1..(Len(hist) - 1) :
          /\ hist[i].op = "upgrade" /\ Absent(hist[i].before)
          /\ hist[i + 1].op = "downgrade"
          => /\ IsFieldList(hist[i + 1].after)
             /\ FieldList(hist[i + 1].after) = <<>>

\* upgrade created the entry and the downgrade after it wrote
C16_Witness ==
    \E i \in 1..(Len(hist) - 1) :
        /\ hist[i].op = "upgrade" /\ Absent(hist[i].before)
        /\ hist[i + 1].op = "downgrade" /\ hist[i + 1].writes = 1
        /\ ~Absent(setting)

\* ------------------------------------------------------------------ C17
\* C17: when the stored Field List already has an element of key nfc_id,
\* upgrade issues no write and raises nothing: value and last_updated stay.
C17_MergePresentNoWrite ==
    \A i \in 1..Len(hist) :
        /\ hist[i].op = "upgrade"
        /\ IsFieldList(hist[i].before)
        /\ NfcPositions(FieldList(hist[i].before)) # {}
        => /\ hist[i].writes = 0
           /\ hist[i].raised = "none"
           /\ \A r \in hist[i].before : \E q \in hist[i].after :
                 q.value = r.value /\ q.last_updated = r.last_updated
           /\ Cardinality(hist[i].after) = Cardinality(hist[i].before)

\* upgrade ran on a list with an nfc_id element that the run before it wrote,
\* so the entry carries that run's timestamp
C17_Witness ==
    \E i \in 2..Len(hist) :
        /\ hist[i].op = "upgrade"
        /\ hist[i - 1].writes = 1
        /\ IsFieldList(hist[i].before)
        /\ NfcPositions(FieldList(hist[i].before)) # {}
        /\ \A r \in hist[i].before : r.last_updated = i - 1

====
